---------------------------- MODULE Spec2Model ----------------------------
(***************************************************************************)
(* Matrix<T> of src/matrix.cpp: a dense row-major matrix over an element   *)
(* type T, with construction, copy/move, element access, elementwise and   *)
(* broadcasting arithmetic, matrix product, transpose and random           *)
(* initialisation.                                                         *)
(*                                                                         *)
(* A matrix value is a record [rows, cols, mat]; mat is the std::vector,   *)
(* a sequence whose element k+1 is the element at linear offset k.         *)
(* Every assert(...) of the source halts the program in a build without    *)
(* NDEBUG and is compiled out in a build with NDEBUG; the build is chosen  *)
(* once, by the variable ndebug.                                           *)
(***************************************************************************)
EXTENDS Integers, Sequences, FiniteSets, TLC

\* ------------------------------------------------------------------ bounds
\* Largest row or column count of a matrix the model constructs.
MaxDim == 2
\* Largest number of elements (rows * cols) of a matrix the model constructs.
MaxCells == 4
\* Longest chain of operations applied to one pair of operands (SpecAlg).
MaxOps == 2
\* Significand width of the model's floating-point element type.
SigBits == 4
\* Largest number of elements of a Matrix object of the lifecycle (Spec).
MaxObjCells == 2
\* Width in bits of the state of the model's pseudo-random generator.
GenBits == 4
\* Most calls of initRandomQSMatrix in one run (SpecRand).
MaxCalls == 2
\* Width in bits of the model's unsigned, the type of _rows * _cols.
UBits == 4

\* ------------------------------------------------- the element type T
RECURSIVE Pow2(_)
Pow2(n) == IF n = 0 THEN 1 ELSE 2 * Pow2(n - 1)

Abs(v) == IF v < 0 THEN -v ELSE v

\* The spacing of representable values around magnitude a: 1 below
\* 2^SigBits, doubling with every further binary digit.
RECURSIVE Ulp(_, _)
Ulp(a, q) == IF a < q * Pow2(SigBits) THEN q ELSE Ulp(a, 2 * q)

\* Round to nearest representable value, ties to the even significand.
TRound(v) ==
    LET a   == Abs(v)
        q   == Ulp(a, 1)
        sig == a \div q
        lo  == sig * q
        rem == a - lo
        up  == IF 2 * rem > q \/ (2 * rem = q /\ sig % 2 = 1) THEN lo + q ELSE lo
    IN  IF v < 0 THEN -up ELSE up

\* T(): the value-initialised element.
TZero == 0

TAdd(a, b) == TRound(a + b)
TSub(a, b) == TRound(a - b)
TMul(a, b) == TRound(a * b)

\* The first power of two whose successor is not representable.
Big == Pow2(SigBits)

\* ----------------------------------------------------- matrix values
Mat(r, c, m) == [rows |-> r, cols |-> c, mat |-> m]

\* unsigned * unsigned: the product modulo 2^UBits.
UMod == Pow2(UBits)
UMul(a, b) == (a * b) % UMod

\* Matrix(_rows, _cols, _initial): mat(_rows * _cols, _initial)
Filled(r, c, v) == Mat(r, c, [k \in 1 .. UMul(r, c) |-> v])

\* What an operation returns: st is "ok" (returned m), "halt" (an assert
\* aborted the program) or "ub" (it read or wrote outside a vector).
Ret(st, m) == [st |-> st, m |-> m]

\* The checks of operator()(row, col) and the element it refers to.
InBounds(M, i, j) == i < M.rows /\ j < M.cols
Offset(M, i, j) == i * M.cols + j
At(M, i, j) == M.mat[Offset(M, i, j) + 1]

SameShape(A, B) == A.rows = B.rows /\ A.cols = B.cols

\* std::transform(a.begin(), a.end(), b.begin(), out.begin(), op): one
\* element of out per element of a, the rest of out as it was.
Transform2(a, b, out, Op(_, _)) ==
    [k \in 1 .. Len(out) |-> IF k <= Len(a) THEN Op(a[k], b[k]) ELSE out[k]]

\* std::transform(a.begin(), a.end(), out.begin(), f)
Transform1(a, out, F(_)) ==
    [k \in 1 .. Len(out) |-> IF k <= Len(a) THEN F(a[k]) ELSE out[k]]

\* The elementwise body shared by operator-, hadamardMultiplication and
\* case 1 of operator+: result(rows, cols, T()) filled by std::transform.
Elementwise(A, B, Op(_, _)) ==
    LET zero == Filled(A.rows, A.cols, TZero)
    IN  Mat(A.rows, A.cols, Transform2(A.mat, B.mat, zero.mat, Op))

\* Case 2 of operator+: result(i, j) = (*this)(i, j) + rhs(0, j).
BroadcastRhs(A, B) ==
    Mat(A.rows, A.cols,
        [k \in 1 .. A.rows * A.cols |->
            LET i == (k - 1) \div A.cols
                j == (k - 1) % A.cols
            IN  TAdd(At(A, i, j), At(B, 0, j))])

\* Case 3 of operator+: result(i, j) = (*this)(0, j) + rhs(i, j), the
\* result being rhs.rows x cols.
BroadcastLhs(A, B) ==
    Mat(B.rows, A.cols,
        [k \in 1 .. B.rows * A.cols |->
            LET i == (k - 1) \div A.cols
                j == (k - 1) % A.cols
            IN  TAdd(At(A, 0, j), At(B, i, j))])

\* operator+(const Matrix&)
OpPlus(A, B, nd) ==
    IF SameShape(A, B) THEN Ret("ok", Elementwise(A, B, TAdd))
    ELSE IF B.rows = 1 /\ B.cols = A.cols THEN Ret("ok", BroadcastRhs(A, B))
    ELSE IF A.rows = 1 /\ A.cols = B.cols THEN Ret("ok", BroadcastLhs(A, B))
    ELSE IF nd THEN Ret("ok", Filled(0, 0, TZero))
    ELSE Ret("halt", A)

\* The body of operator- and hadamardMultiplication after the assert:
\* std::transform reads Len(mat) elements of rhs.mat.
ElementwiseChecked(A, B, nd, Op(_, _)) ==
    IF SameShape(A, B) THEN Ret("ok", Elementwise(A, B, Op))
    ELSE IF ~nd THEN Ret("halt", A)
    ELSE IF Len(B.mat) >= Len(A.mat) THEN Ret("ok", Elementwise(A, B, Op))
    ELSE Ret("ub", A)

\* A subtraction with its operands exchanged.
MinusSwapped(A, B, nd) == ElementwiseChecked(B, A, nd, TSub)

\* operator-(const Matrix&)
OpMinus(A, B, nd) == ElementwiseChecked(A, B, nd, TSub)

\* hadamardMultiplication(const Matrix&)
OpHadamard(A, B, nd) == ElementwiseChecked(A, B, nd, TMul)

\* The loops of operator*: iteration t of the i -> k -> j nest adds
\* (*this)(i, k) * rhs.mat[k * rhs.cols + j] to result.mat[i * result.cols + j].
RECURSIVE MulLoop(_, _, _, _)
MulLoop(acc, A, B, t) ==
    IF t = A.rows * A.cols * B.cols THEN acc
    ELSE LET i    == t \div (A.cols * B.cols)
             k    == (t \div B.cols) % A.cols
             j    == t % B.cols
             temp == At(A, i, k)
             at   == i * B.cols + j + 1
         IN  MulLoop([acc EXCEPT ![at] = TAdd(acc[at], TMul(temp, B.mat[k * B.cols + j + 1]))],
                     A, B, t + 1)

\* operator*(const Matrix&)
OpTimes(A, B, nd) ==
    IF A.cols # B.rows /\ ~nd THEN Ret("halt", A)
    ELSE IF A.rows > 0 /\ B.cols > 0 /\ A.cols * B.cols > Len(B.mat) THEN Ret("ub", A)
    ELSE Ret("ok", Mat(A.rows, B.cols,
                       MulLoop(Filled(A.rows, B.cols, TZero).mat, A, B, 0)))

\* A transpose that exchanges rows and cols over the elements as they lie.
TransposeReshaped(A) == Mat(A.cols, A.rows, A.mat)

\* transpose(): result(j, i) = (*this)(i, j), the result being cols x rows.
OpTranspose(A) ==
    Mat(A.cols, A.rows,
        [k \in 1 .. A.cols * A.rows |->
            LET j == (k - 1) \div A.rows
                i == (k - 1) % A.rows
            IN  At(A, i, j)])

\* ------------------------------------------------------------ inputs
Dims == 0 .. MaxDim

\* The element values the operands are built from.
Vals == {1, Big}

Shapes == {s \in Dims \X Dims : s[1] * s[2] <= MaxCells}

MatsOfShape(r, c) == {Mat(r, c, m) : m \in [1 .. r * c -> Vals]}

Mats == UNION {MatsOfShape(s[1], s[2]) : s \in Shapes}

\* ------------------------------------------------------------- state
VARIABLES
    ndebug,   \* the build defines NDEBUG
    orig,     \* SpecAlg: the left operand as constructed
    self,     \* SpecAlg: the left operand, *this
    rhs,      \* SpecAlg: the right operand
    result,   \* SpecAlg: the matrix the last operation returned
    hist,     \* SpecAlg: the operations applied so far
    status,   \* "ok", "halt" (an assert aborted) or "ub" (access outside a vector)
    obj,      \* Spec: each Matrix object's live flag, rows, cols and vector
    heap,     \* Spec: the element storage of each vector
    last,     \* Spec: the member function that ran last, and the value it read
    contract, \* Spec: every flat-sequence construction got rows * cols elements
    gen,      \* SpecRand: the state of the static generator
    calls     \* SpecRand: the calls of initRandomQSMatrix so far, with what each returned

vars ==
    <<ndebug, orig, self, rhs, result, hist, status, obj, heap, last, contract, gen, calls>>

algVars == <<orig, self, rhs, result, hist>>
objVars == <<obj, heap, last, contract>>
randVars == <<gen, calls>>

\* ------------------------------------------- Spec: Matrix objects
\* The named Matrix objects of the program.
Slots == {"A", "B"}

\* The element values objects are built from and may hold.
Elems == {0, 1}

\* A sequence of n ones.
Ones(n) == [k \in 1 .. n |-> 1]

\* The nested sequences given to Matrix(const vector<vector<T>>&): up to
\* MaxDim rows of up to MaxDim elements each, ragged ones included.
NestedInputs == UNION {[1 .. n -> {Ones(len) : len \in Dims}] : n \in Dims}

\* The shapes given to Matrix(rows, cols, initial): those within the bounds
\* and the smallest with two columns whose product exceeds the unsigned range.
Wrapping == <<Pow2(UBits - 1), 2>>
ObjShapes == {s \in Shapes : s[1] * s[2] <= MaxObjCells}
FilledShapes == ObjShapes \cup {Wrapping}

\* The flat sequences given to Matrix(const vector<T>&, rows, cols).
FlatInputs == {Ones(n) : n \in 0 .. MaxObjCells}

\* The pure functions given to component_wise_transformation.
Transformations == {"square", "oneMinus"}
Apply(f, v) == IF f = "square" THEN TMul(v, v) ELSE TSub(1, v)

\* The scalar operators +, -, *, / of Matrix with a T.
ScalarOps == {"+", "-", "*", "/"}
Scalar(op, v, s) ==
    CASE op = "+" -> TAdd(v, s)
      [] op = "-" -> TSub(v, s)
      [] op = "*" -> TMul(v, s)
      [] op = "/" -> v \div s

\* static std::mt19937 gen{42}: the generator is a recurrence over 2^GenBits
\* states that visits every state once per period; a draw advances it and
\* yields the new state.
Seed == 42
Modulus == Pow2(GenBits)
Seeded(seed) == seed % Modulus
GenStep(g) == (5 * g + 3) % Modulus

RandIdle ==
    /\ gen = Seeded(Seed)
    /\ calls = <<>>

ObjIdle ==
    /\ obj = [x \in Slots |-> [live |-> FALSE, rows |-> 0, cols |-> 0, ref |-> x]]
    /\ heap = [x \in Slots |-> <<>>]
    /\ last = [op |-> "none", val |-> 0]
    /\ contract = TRUE

AlgIdle ==
    /\ orig = Filled(0, 0, TZero)
    /\ self = Filled(0, 0, TZero)
    /\ rhs = Filled(0, 0, TZero)
    /\ result = Filled(0, 0, TZero)
    /\ hist = <<>>

Init ==
    /\ ndebug \in BOOLEAN
    /\ status = "ok"
    /\ ObjIdle
    /\ AlgIdle
    /\ RandIdle

\* The matrix an object holds: its fields and the elements of its vector.
Live(x) == obj[x].live
Vec(o, h, x) == h[o[x].ref]
ValIn(o, h, x) == Mat(o[x].rows, o[x].cols, Vec(o, h, x))
Val(x) == ValIn(obj, heap, x)

\* A copy that shares the buffer of its source.
VecShared(x, y) == obj[y].ref

\* The storage std::vector's copy constructor and copy assignment give the
\* copy: a buffer of its own.
VecCopyRef(x, y) == x

\* Object x with the fields and elements of M, in storage of its own.
SetObj(o, x, M, ref) ==
    [o EXCEPT ![x] = [live |-> TRUE, rows |-> M.rows, cols |-> M.cols, ref |-> ref]]
SetVec(h, cell, m) == [h EXCEPT ![cell] = m]

\* Every vector is within the modelled size and every element the objects
\* hold within the modelled value range.
InDomain(h) ==
    \A c \in Slots : Len(h[c]) <= MaxObjCells /\ \A k \in 1 .. Len(h[c]) : h[c][k] \in Elems

\* Operations on a matrix whose vector does not hold rows * cols elements
\* are not modelled: a run ends with the construction of one.
HoldsShape(o, h, x) == Len(Vec(o, h, x)) = o[x].rows * o[x].cols
CanRun == status = "ok" /\ \A x \in Slots : HoldsShape(obj, heap, x)

\* The end of a member function: st is how it ended, o and h the objects
\* and storage it leaves.  "halt" is the abort of a failed assert; "ub" is an
\* access outside a vector, whose outcome the language leaves open: the run
\* is followed no further and the objects are those of the call's start.
Done(op, val, st, o, h) ==
    /\ st = "ok" => InDomain(h)
    /\ status' = st
    /\ obj' = o
    /\ heap' = h
    /\ last' = [op |-> op, val |-> val]
    /\ UNCHANGED <<ndebug, algVars, randVars>>

\* Matrix(unsigned _rows, unsigned _cols, const T& _initial)
CtorFilled(x, r, c, v) ==
    /\ CanRun /\ ~Live(x)
    /\ LET M == Filled(r, c, v)
       IN  Done("ctorFilled", 0, "ok", SetObj(obj, x, M, x), SetVec(heap, x, M.mat))
    /\ UNCHANGED contract

\* The column count the nested-sequence constructor takes from its input.
NestedCols(nested) == IF nested = <<>> THEN 0 ELSE Len(nested[1])

\* std::copy of the rows, one after the other, to mat.begin() + i * cols.
RECURSIVE CopyRows(_, _, _, _)
CopyRows(m, nested, c, i) ==
    IF i = Len(nested) THEN m
    ELSE CopyRows([k \in 1 .. Len(m) |->
                      IF k > i * c /\ k <= i * c + Len(nested[i + 1])
                        THEN nested[i + 1][k - i * c] ELSE m[k]],
                  nested, c, i + 1)

\* Matrix(const std::vector<std::vector<T>>&)
NestedRet(nested, nd) ==
    LET r == Len(nested)
        c == NestedCols(nested)
    IN  IF ~nd /\ \E i \in 1 .. r : Len(nested[i]) # c
          THEN Ret("halt", Filled(0, 0, TZero))
        ELSE IF \E i \in 1 .. r : (i - 1) * c + Len(nested[i]) > r * c
          THEN Ret("ub", Filled(r, c, TZero))
        ELSE Ret("ok", Mat(r, c, CopyRows(Filled(r, c, TZero).mat, nested, c, 0)))

CtorNested(x, nested) ==
    /\ CanRun /\ ~Live(x)
    /\ Len(nested) * NestedCols(nested) <= MaxObjCells
    /\ LET ret == NestedRet(nested, ndebug)
       IN  IF ret.st # "ok"
             THEN Done("ctorNested", 0, ret.st, obj, heap)
             ELSE Done("ctorNested", 0, "ok",
                       SetObj(obj, x, ret.m, x), SetVec(heap, x, ret.m.mat))
    /\ UNCHANGED contract

\* Matrix(const std::vector<T>& _mat, size_t _rows, size_t _cols)
CtorFlat(x, data, r, c) ==
    /\ CanRun /\ ~Live(x)
    /\ Done("ctorFlat", 0, "ok", SetObj(obj, x, Mat(r, c, data), x), SetVec(heap, x, data))
    /\ contract' = (contract /\ Len(data) = r * c)

\* Matrix(const Matrix& rhs)
CtorCopy(x, y) ==
    /\ CanRun /\ ~Live(x) /\ Live(y)
    /\ LET ref == VecCopyRef(x, y)
       IN  Done("ctorCopy", 0, "ok",
                SetObj(obj, x, Val(y), ref), SetVec(heap, ref, Vec(obj, heap, y)))
    /\ UNCHANGED contract

\* The source of a move: rows = 0, cols = 0, and a vector that was moved from.
MovedFrom(o, y) == [o EXCEPT ![y] = [live |-> TRUE, rows |-> 0, cols |-> 0, ref |-> y]]

\* Matrix(Matrix&& rhs)
CtorMove(x, y) ==
    /\ CanRun /\ ~Live(x) /\ Live(y) /\ x # y
    /\ Done("ctorMove", 0, "ok",
            MovedFrom(SetObj(obj, x, Val(y), x), y),
            SetVec(SetVec(heap, x, Vec(obj, heap, y)), y, <<>>))
    /\ UNCHANGED contract

\* ~Matrix()
Destroy(x) ==
    /\ CanRun /\ Live(x)
    /\ Done("destroy", 0, "ok",
            [obj EXCEPT ![x] = [live |-> FALSE, rows |-> 0, cols |-> 0, ref |-> x]],
            SetVec(heap, x, <<>>))
    /\ UNCHANGED contract

\* operator=(const Matrix& rhs)
CopyAssign(x, y) ==
    /\ CanRun /\ Live(x) /\ Live(y)
    /\ IF x = y
         THEN Done("copyAssign", 0, "ok", obj, heap)
         ELSE LET ref == VecCopyRef(x, y)
              IN  Done("copyAssign", 0, "ok",
                       SetObj(obj, x, Val(y), ref), SetVec(heap, ref, Vec(obj, heap, y)))
    /\ UNCHANGED contract

\* operator=(Matrix&& rhs)
MoveAssign(x, y) ==
    /\ CanRun /\ Live(x) /\ Live(y)
    /\ IF x # y
         THEN Done("moveAssign", 0, "ok",
                   MovedFrom(SetObj(obj, x, Val(y), x), y),
                   SetVec(SetVec(heap, x, Vec(obj, heap, y)), y, <<>>))
         ELSE Done("moveAssign", 0, "ok", obj, heap)
    /\ UNCHANGED contract

\* The compound assignment operator+=, operator-= and
\* hadamardMultiplicationInPlace each apply to an element.
Compound(op, a, b) ==
    CASE op = "plusAssign" -> TAdd(a, b)
      [] op = "minusAssign" -> TSub(a, b)
      [] op = "hadamardInPlace" -> TMul(a, b)

\* A loop that stops one element early.
RECURSIVE LoopStopsEarly(_, _, _, _, _, _)
LoopStopsEarly(h, xr, yr, i, n, op) ==
    IF i + 1 >= n \/ i >= Len(h[yr]) \/ i >= Len(h[xr]) THEN h
    ELSE LoopStopsEarly([h EXCEPT ![xr][i + 1] = Compound(op, h[xr][i + 1], h[yr][i + 1])],
                        xr, yr, i + 1, n, op)

\* The loop of the three: mat[i] op= rhs.mat[i] for i < n, read and written
\* through the vectors, followed as far as both vectors reach.
RECURSIVE InPlaceLoop(_, _, _, _, _, _)
InPlaceLoop(h, xr, yr, i, n, op) ==
    IF i = n \/ i >= Len(h[yr]) \/ i >= Len(h[xr]) THEN h
    ELSE InPlaceLoop([h EXCEPT ![xr][i + 1] = Compound(op, h[xr][i + 1], h[yr][i + 1])],
                     xr, yr, i + 1, n, op)

InPlace(op, x, y) ==
    /\ CanRun /\ Live(x) /\ Live(y)
    /\ LET n  == obj[x].rows * obj[x].cols
           h2 == InPlaceLoop(heap, obj[x].ref, obj[y].ref, 0, n, op)
       IN  IF ~SameShape(Val(x), Val(y)) /\ ~ndebug
             THEN Done(op, 0, "halt", obj, heap)
           ELSE IF Len(Vec(obj, heap, y)) < n
             THEN Done(op, 0, "ub", obj, heap)
           ELSE Done(op, 0, "ok", obj, h2)
    /\ UNCHANGED contract

\* operator+=(const Matrix&)
PlusAssign(x, y) == Live(x) /\ Live(y) /\ InPlace("plusAssign", x, y)

\* operator-=(const Matrix&)
MinusAssign(x, y) == Live(x) /\ Live(y) /\ InPlace("minusAssign", x, y)

\* hadamardMultiplicationInPlace(const Matrix&)
HadamardInPlace(x, y) == Live(x) /\ Live(y) /\ InPlace("hadamardInPlace", x, y)

\* x = <the matrix a member function returned>: the temporary is moved
\* into x, or x is constructed from it.
Bind(op, x, ret) ==
    /\ CanRun
    /\ IF ret.st = "ok"
         THEN Done(op, 0, "ok", SetObj(obj, x, ret.m, x), SetVec(heap, x, ret.m.mat))
         ELSE Done(op, 0, ret.st, obj, heap)
    /\ UNCHANGED contract

\* operator*=(const Matrix& rhs): *this = std::move((*this) * rhs)
TimesAssign(x, y) ==
    Live(x) /\ Live(y) /\ Bind("timesAssign", x, OpTimes(Val(x), Val(y), ndebug))

\* transpose_in_place(): *this = std::move(this->transpose())
TransposeInPlace(x) ==
    Live(x) /\ Bind("transposeInPlace", x, Ret("ok", OpTranspose(Val(x))))

\* operator*=(const T& rhs)
ScalarTimesAssign(x, s) ==
    /\ CanRun /\ Live(x)
    /\ Done("scalarTimesAssign", 0, "ok", obj,
            [heap EXCEPT ![obj[x].ref] =
                [k \in 1 .. Len(@) |-> IF k <= obj[x].rows * obj[x].cols THEN TMul(@[k], s) ELSE @[k]]])
    /\ UNCHANGED contract

\* component_wise_transformation_in_place(f)
TransformInPlace(x, f) ==
    /\ CanRun /\ Live(x)
    /\ LET F(v) == Apply(f, v)
       IN  Done("transformInPlace", 0, "ok", obj,
                [heap EXCEPT ![obj[x].ref] = Transform1(@, @, F)])
    /\ UNCHANGED contract

\* x = x + z, x = x - z, x = x * z, x = x.hadamardMultiplication(z)
BindPlus(x, z) ==
    Live(x) /\ Live(z) /\ Bind("plus", x, OpPlus(Val(x), Val(z), ndebug))
BindMinus(x, z) ==
    Live(x) /\ Live(z) /\ Bind("minus", x, OpMinus(Val(x), Val(z), ndebug))
BindTimes(x, z) ==
    Live(x) /\ Live(z) /\ Bind("times", x, OpTimes(Val(x), Val(z), ndebug))
BindHadamard(x, z) ==
    Live(x) /\ Live(z) /\ Bind("hadamard", x, OpHadamard(Val(x), Val(z), ndebug))

\* x = y.transpose()
BindTranspose(x, y) ==
    Live(y) /\ x # y /\ Bind("transpose", x, Ret("ok", OpTranspose(Val(y))))

\* operator+(const T&), operator-(const T&), operator*(const T&), operator/(const T&)
OpScalar(A, op, s) ==
    LET F(v) == Scalar(op, v, s)
    IN  Mat(A.rows, A.cols, Transform1(A.mat, Filled(A.rows, A.cols, TZero).mat, F))

\* x = x op s
BindScalar(x, op, s) ==
    /\ Live(x)
    /\ op = "/" => s # 0 /\ \A k \in 1 .. Len(Val(x).mat) : Val(x).mat[k] % s = 0
    /\ Bind("scalar", x, Ret("ok", OpScalar(Val(x), op, s)))

\* component_wise_transformation(f)
OpTransform(A, f) ==
    LET F(v) == Apply(f, v)
    IN  Mat(A.rows, A.cols, Transform1(A.mat, Filled(A.rows, A.cols, TZero).mat, F))

\* x = y.component_wise_transformation(f)
BindTransform(x, y, f) ==
    Live(y) /\ x # y /\ Bind("transform", x, Ret("ok", OpTransform(Val(y), f)))

\* operator()(row, col), the mutable form, assigned v.
Write(x, i, j, v) ==
    /\ CanRun /\ Live(x)
    /\ LET off == Offset(Val(x), i, j)
       IN  IF ~InBounds(Val(x), i, j) /\ ~ndebug
             THEN Done("write", 0, "halt", obj, heap)
           ELSE IF off >= Len(Vec(obj, heap, x))
             THEN Done("write", 0, "ub", obj, heap)
           ELSE Done("write", 0, "ok", obj,
                     [heap EXCEPT ![obj[x].ref][off + 1] = v])
    /\ UNCHANGED contract

\* operator()(row, col) const, its value read.
Read(x, i, j) ==
    /\ CanRun /\ Live(x)
    /\ LET off == Offset(Val(x), i, j)
       IN  IF ~InBounds(Val(x), i, j) /\ ~ndebug
             THEN Done("read", 0, "halt", obj, heap)
           ELSE IF off >= Len(Vec(obj, heap, x))
             THEN Done("read", 0, "ub", obj, heap)
           ELSE Done("read", Vec(obj, heap, x)[off + 1], "ok", obj, heap)
    /\ UNCHANGED contract

\* The names that hold no object, and those that hold one.
Free == {x \in Slots : ~Live(x)}
Alive == {x \in Slots : Live(x)}

Next ==
    \/ \E x \in Slots : x \in Free /\
          \E s \in FilledShapes, v \in Elems : CtorFilled(x, s[1], s[2], v)
    \/ \E x \in Slots : x \in Free /\
          \E nested \in NestedInputs : CtorNested(x, nested)
    \/ \E x \in Slots : x \in Free /\
          \E data \in FlatInputs, s \in ObjShapes : CtorFlat(x, data, s[1], s[2])
    \/ \E x, y \in Slots : CtorCopy(x, y)
    \/ \E x, y \in Slots : CtorMove(x, y)
    \/ \E x \in Slots : Destroy(x)
    \/ \E x, y \in Slots : CopyAssign(x, y)
    \/ \E x, y \in Slots : MoveAssign(x, y)
    \/ \E x, y \in Slots : PlusAssign(x, y)
    \/ \E x, y \in Slots : MinusAssign(x, y)
    \/ \E x, y \in Slots : HadamardInPlace(x, y)
    \/ \E x, y \in Slots : TimesAssign(x, y)
    \/ \E x \in Slots : TransposeInPlace(x)
    \/ \E x \in Slots : x \in Alive /\
          \E s \in Elems : ScalarTimesAssign(x, s)
    \/ \E x \in Slots : x \in Alive /\
          \E f \in Transformations : TransformInPlace(x, f)
    \/ \E x, z \in Slots : BindPlus(x, z)
    \/ \E x, z \in Slots : BindMinus(x, z)
    \/ \E x, z \in Slots : BindTimes(x, z)
    \/ \E x, z \in Slots : BindHadamard(x, z)
    \/ \E x, y \in Slots : BindTranspose(x, y)
    \/ \E x \in Slots : x \in Alive /\
          \E op \in ScalarOps, s \in Elems : BindScalar(x, op, s)
    \/ \E x, y \in Slots : y \in Alive /\
          \E f \in Transformations : BindTransform(x, y, f)
    \/ \E x \in Slots : x \in Alive /\
          \E i \in 0 .. obj[x].rows, j \in 0 .. obj[x].cols, v \in Elems : Write(x, i, j, v)
    \/ \E x \in Slots : x \in Alive /\
          \E i \in 0 .. obj[x].rows, j \in 0 .. obj[x].cols : Read(x, i, j)

Spec == Init /\ [][Next]_vars

\* ------------------------------------------- SpecAlg: the operators
\* Operations that return a new matrix, and the one that mutates *this.
Returning == {"+", "-", "*", "T"}

\* The operand of the next operation of a chain: *this first, then the
\* matrix the previous operation returned.
Top == IF \E k \in 1 .. Len(hist) : hist[k] \in Returning THEN result ELSE self

\* The fields of *this after operator=(Matrix&& rhs) from another object.
MoveAssigned(src) == Mat(src.rows, src.cols, src.mat)

AlgInit ==
    /\ ndebug \in BOOLEAN
    /\ orig \in Mats
    /\ self = orig
    /\ rhs \in Mats
    /\ result = Filled(0, 0, TZero)
    /\ hist = <<>>
    /\ status = "ok"
    /\ ObjIdle
    /\ RandIdle

AlgCanStep == status = "ok" /\ Len(hist) < MaxOps

\* A const member function returned ret: *this and rhs are as they were.
AlgReturn(op, ret) ==
    /\ status' = ret.st
    /\ result' = IF ret.st = "ok" THEN ret.m ELSE result
    /\ hist' = Append(hist, op)
    /\ UNCHANGED <<ndebug, orig, self, rhs, objVars, randVars>>

AlgPlus == AlgCanStep /\ AlgReturn("+", OpPlus(Top, rhs, ndebug))

AlgMinus == AlgCanStep /\ AlgReturn("-", OpMinus(Top, rhs, ndebug))

AlgTimes == AlgCanStep /\ AlgReturn("*", OpTimes(Top, rhs, ndebug))

AlgTranspose == AlgCanStep /\ AlgReturn("T", Ret("ok", OpTranspose(Top)))

\* transpose_in_place(): *this = std::move(this->transpose()).
AlgTransposeInPlace ==
    /\ AlgCanStep
    /\ hist' = Append(hist, "Tip")
    /\ IF Top = self /\ ~(\E k \in 1 .. Len(hist) : hist[k] \in Returning)
         THEN self' = MoveAssigned(OpTranspose(self)) /\ UNCHANGED result
         ELSE result' = MoveAssigned(OpTranspose(result)) /\ UNCHANGED self
    /\ UNCHANGED <<ndebug, orig, rhs, status, objVars, randVars>>

AlgNext == AlgPlus \/ AlgMinus \/ AlgTimes \/ AlgTranspose \/ AlgTransposeInPlace

SpecAlg == AlgInit /\ [][AlgNext]_vars

\* ------------------------------------- SpecRand: random initialisation
\* The maxWeight arguments: 0, one unit of T, and half the generator's range.
Weights == {0, 1, Modulus \div 2}

\* d(gen) of std::uniform_real_distribution<T> d(-maxWeight, maxWeight):
\* a + (b - a) * u for the fraction u = g / Modulus of [0, 1) the generator
\* yields, in T.
Draw(g, w) == TRound((-w) + (TSub(w, -w) * g) \div Modulus)

\* A generator seeded anew by every call.
GenReseeded(g) == Seeded(Seed)

\* The generator a call draws from: the function's static one, in the state
\* the previous call left it.
GenOfCall(g) == g

\* for (i = 0; i < _rows * _cols; ++i) my_matrix.mat[i] = d(gen);
RECURSIVE FillLoop(_, _, _, _, _)
FillLoop(m, g, i, n, w) ==
    IF i = n THEN [m |-> m, gen |-> g]
    ELSE LET g2 == GenStep(g)
         IN  FillLoop([m EXCEPT ![i + 1] = Draw(g2, w)], g2, i + 1, n, w)

\* initRandomQSMatrix(_rows, _cols, maxWeight)
RandomInit(r, c, w) ==
    /\ status = "ok" /\ Len(calls) < MaxCalls
    /\ LET my_matrix == Filled(r, c, TZero)
           filled    == FillLoop(my_matrix.mat, GenOfCall(gen), 0, r * c, w)
       IN  /\ gen' = filled.gen
           /\ calls' = Append(calls, [rows |-> r, cols |-> c, w |-> w,
                                      m |-> Mat(r, c, filled.m)])
    /\ UNCHANGED <<ndebug, status, algVars, objVars>>

RandNext == \E s \in ObjShapes, w \in Weights : RandomInit(s[1], s[2], w)

SpecRand == Init /\ [][RandNext]_vars

\* ------------------------------------------------ reference definitions
WellFormed(M) == Len(M.mat) = M.rows * M.cols

\* M has shape (r, c) and element (i, j) equal to E(i, j).
IsMatrix(M, r, c, E(_, _)) ==
    /\ M.rows = r /\ M.cols = c /\ WellFormed(M)
    /\ \A i \in 0 .. r - 1 : \A j \in 0 .. c - 1 : At(M, i, j) = E(i, j)

\* The inner product of row i of A and column j of B, summed from k = 0.
RECURSIVE Inner(_, _, _, _, _)
Inner(A, B, i, j, n) ==
    IF n = 0 THEN TZero
    ELSE TAdd(Inner(A, B, i, j, n - 1), TMul(At(A, i, n - 1), At(B, n - 1, j)))

PlusCompatible(A, B) ==
    \/ SameShape(A, B)
    \/ B.rows = 1 /\ B.cols = A.cols
    \/ A.rows = 1 /\ A.cols = B.cols

\* ---------------------------------------------------------------- C2
\* C2: A + B is the elementwise sum for identical shapes; otherwise, for a
\* one-row B as wide as A, A's shape with B's row added to every row;
\* otherwise, for a one-row A as wide as B, B's shape with A's row added to
\* every row; every other shape combination is a fault.
C2_PlusPolicy ==
    hist = <<"+">> =>
        LET A == orig
            B == rhs
            SumAB(i, j)  == TAdd(At(A, i, j), At(B, i, j))
            SumAB0(i, j) == TAdd(At(A, i, j), At(B, 0, j))
            SumA0B(i, j) == TAdd(At(A, 0, j), At(B, i, j))
        IN  IF SameShape(A, B)
              THEN status = "ok" /\ IsMatrix(result, A.rows, A.cols, SumAB)
            ELSE IF B.rows = 1 /\ B.cols = A.cols
              THEN status = "ok" /\ IsMatrix(result, A.rows, A.cols, SumAB0)
            ELSE IF A.rows = 1 /\ A.cols = B.cols
              THEN status = "ok" /\ IsMatrix(result, B.rows, B.cols, SumA0B)
            ELSE status = "halt"

\* ---------------------------------------------------------------- C3
\* C3: for A of shape (m, n) and B of shape (n, p), A * B has shape (m, p)
\* and element (i, j) is the inner product of row i of A and column j of B
\* (all elements T() when n = 0); when A.cols # B.rows the product faults.
C3_Product ==
    hist = <<"*">> =>
        LET A == orig
            B == rhs
            Prod(i, j) == Inner(A, B, i, j, A.cols)
        IN  IF A.cols = B.rows
              THEN status = "ok" /\ IsMatrix(result, A.rows, B.cols, Prod)
              ELSE status = "halt"

C7_Transpose ==
    LET A == orig
        Swapped(j, i) == At(A, i, j)
    IN  /\ hist = <<"T">> =>
              status = "ok" /\ self = A /\ IsMatrix(result, A.cols, A.rows, Swapped)
        /\ hist = <<"T", "T">> => status = "ok" /\ self = A /\ result = A
        /\ hist = <<"Tip">> =>
              status = "ok" /\ IsMatrix(self, A.cols, A.rows, Swapped)
        /\ hist = <<"Tip", "Tip">> => self = A

\* A matrix that is not square, transposed twice.
C7_Witness ==
    /\ hist = <<"T", "T">> /\ orig.rows = 1 /\ orig.cols = 2
    /\ orig.mat[1] # orig.mat[2]


\* ------------------------------------------------ claims on the objects
ValNext(x) == ValIn(obj', heap', x)
Ran(op) == last'.op = op

\* The member functions that mutate *this.
Mutators ==
    {"write", "plusAssign", "minusAssign", "hadamardInPlace", "timesAssign",
     "transposeInPlace", "scalarTimesAssign", "transformInPlace"}

\* C1: in every reachable state every Matrix instance holds exactly
\* rows * cols elements, whenever every flat-sequence construction was
\* given a sequence of rows * cols elements.
C1_ShapeAlways ==
    contract => \A x \in Slots : Live(x) => Len(Vec(obj, heap, x)) = obj[x].rows * obj[x].cols

\* C4: an operation succeeds or halts: it never reads or writes outside a
\* vector, operator+ on operands of no supported shape combination halts
\* and returns no matrix, and a mismatched += halts with *this as it was.
C4_FailFast ==
    /\ [](status # "ub")
    /\ [][\A x, z \in Alive :
            /\ (Ran("plus") /\ BindPlus(x, z) /\ ~PlusCompatible(Val(x), Val(z))) =>
                   status' = "halt"
            /\ (Ran("plusAssign") /\ PlusAssign(x, z) /\ ~SameShape(Val(x), Val(z))) =>
                   status' = "halt" /\ ValNext(x) = Val(x)]_vars

\* C5: a move from a distinct source gives the destination the source's
\* shape and elements and leaves the source 0x0 with an empty vector; a
\* copy leaves both equal, each with a vector of its own; self-assignment
\* changes nothing; and an operation that mutates one instance changes the
\* value of no other.
C5_Ownership ==
    [][/\ \A x, y \in Slots :
            /\ (x # y /\ (\/ Ran("ctorMove") /\ CtorMove(x, y)
                          \/ Ran("moveAssign") /\ MoveAssign(x, y))) =>
                  /\ ValNext(x) = Val(y)
                  /\ ValNext(y) = Mat(0, 0, <<>>)
                  /\ obj'[x].ref # obj'[y].ref
            /\ (x # y /\ (\/ Ran("ctorCopy") /\ CtorCopy(x, y)
                          \/ Ran("copyAssign") /\ CopyAssign(x, y))) =>
                  /\ ValNext(x) = Val(y)
                  /\ ValNext(y) = Val(y)
                  /\ obj'[x].ref # obj'[y].ref
            /\ (x = y /\ (\/ Ran("copyAssign") /\ CopyAssign(x, y)
                          \/ Ran("moveAssign") /\ MoveAssign(x, y))) =>
                  ValNext(x) = Val(x) /\ status' = "ok"
       /\ last'.op \in Mutators =>
            Cardinality({x \in Slots : ValNext(x) # Val(x)}) <= 1]_vars

\* A move assignment has just left one instance 0x0 and the other with the
\* two elements 0, 1.
C5_Witness ==
    /\ last.op = "moveAssign" /\ status = "ok"
    /\ \E x, y \in Alive :
          /\ x # y
          /\ Val(x) = Mat(1, 2, <<0, 1>>)
          /\ Val(y) = Mat(0, 0, <<>>)

\* C9: element access halts when row >= rows or col >= cols; otherwise it
\* refers to the element at offset row * cols + col, which is inside the
\* vector, and a write changes that element and no other.
C9_Access ==
    [][\A x \in Alive : \A i, j \in 0 .. MaxDim + 1 :
          /\ (Ran("read") /\ Read(x, i, j)) =>
                IF ~InBounds(Val(x), i, j) THEN status' = "halt"
                ELSE /\ status' = "ok"
                     /\ Offset(Val(x), i, j) < Len(Vec(obj, heap, x))
                     /\ last'.val = At(Val(x), i, j)
          /\ \A v \in Elems : (Ran("write") /\ Write(x, i, j, v)) =>
                IF ~InBounds(Val(x), i, j) THEN status' = "halt"
                ELSE /\ status' = "ok"
                     /\ \A p, q \in Dims : InBounds(Val(x), p, q) =>
                           At(ValNext(x), p, q) =
                              IF p = i /\ q = j THEN v ELSE At(Val(x), p, q)]_vars

RECURSIVE Stream(_)
Stream(n) == IF n = 0 THEN Seeded(Seed) ELSE GenStep(Stream(n - 1))

\* The number of draws the calls before the k-th consumed.
RECURSIVE DrawsBefore(_)
DrawsBefore(k) ==
    IF k = 1 THEN 0
    ELSE DrawsBefore(k - 1) + calls[k - 1].rows * calls[k - 1].cols

SameArgs(a, b) == a.rows = b.rows /\ a.cols = b.cols /\ a.w = b.w

\* C8 (as stated): two successive calls with the same arguments return
\* different matrices.
C8_SuccessiveDiffer ==
    \A k \in 1 .. Len(calls) - 1 :
        SameArgs(calls[k], calls[k + 1]) => calls[k].m # calls[k + 1].m

\* C8: the generator is seeded once and every call draws on from where the
\* previous call stopped: element i of the k-th matrix is the draw at
\* position (draws of the earlier calls) + i + 1 of the one stream, so the
\* matrices are the same in every run; every element lies within
\* [-maxWeight, maxWeight]; two successive calls with the same arguments
\* return equal matrices when rows * cols = 0 or maxWeight = 0, and
\* different ones when rows * cols > 0 and maxWeight is half the
\* generator's range, which keeps its draws apart.
C8_ContinuedStream ==
    /\ gen = Stream(DrawsBefore(Len(calls) + 1))
    /\ \A k \in 1 .. Len(calls) :
          LET c == calls[k]
          IN  /\ c.m.rows = c.rows /\ c.m.cols = c.cols
              /\ Len(c.m.mat) = c.rows * c.cols
              /\ \A i \in 1 .. Len(c.m.mat) :
                    /\ c.m.mat[i] = Draw(Stream(DrawsBefore(k) + i), c.w)
                    /\ -c.w <= c.m.mat[i] /\ c.m.mat[i] <= c.w
    /\ \A k \in 1 .. Len(calls) - 1 :
          SameArgs(calls[k], calls[k + 1]) =>
              /\ (calls[k].rows * calls[k].cols = 0 \/ calls[k].w = 0) =>
                    calls[k].m = calls[k + 1].m
              /\ (calls[k].rows * calls[k].cols > 0 /\ calls[k].w = Modulus \div 2) =>
                    calls[k].m # calls[k + 1].m

\* Two successive calls with the same arguments have returned two different
\* matrices of two elements each.
C8_Witness ==
    /\ Len(calls) >= 2
    /\ SameArgs(calls[1], calls[2])
    /\ Len(calls[1].m.mat) = 2 /\ calls[1].w = Modulus \div 2
    /\ calls[1].m # calls[2].m

=============================================================================
